---- MODULE Spec2Model ----
(***************************************************************************)
(* Model of AuroraSystem (src/main.py): the Kp-index visibility table, the *)
(* alert cooldown, the condition check, the daily report and the           *)
(* monitoring loop that schedules them.                                    *)
(*                                                                         *)
(* Units.  Time is in whole seconds (time.time()).  A Kp index is kept in  *)
(* hundredths (3.67 is 367) and a latitude in ten-thousandths of a degree  *)
(* (40.6664 is 406664), so that the comparisons of the source are exact.   *)
(***************************************************************************)
EXTENDS Integers, Sequences, FiniteSets, TLC

VARIABLES
    user_lat,         \* self.user_location['lat'], fixed at construction
    email_config,     \* TRUE iff an email_config was given (notifier enabled)
    last_alert_time,  \* self.last_alert_time: None or the time of the last alert
    now,              \* the wall clock, time.time()
    pc,               \* where the single worker is: start, idle, check, daily, raised, hung
    cycles,           \* number of jobs the scheduler has started
    alert_outcome,    \* what became of the notification of the last alert decided
    cycle             \* what the last handler run read, decided and did: the
                      \* map it saved (render) and the message it sent (mail)

vars == <<user_lat, email_config, last_alert_time, now, pc, cycles, alert_outcome, cycle>>

-----------------------------------------------------------------------------
(* Constants of the program *)

\* Python's None (no reading, no alert yet); never a valid time or reading here
None == -1

kp_threshold == 4

alert_cooldown == 3600

\* d degrees / k Kp units in the fixed-point units of the model
Deg(d) == d * 10000
Kp(k) == k * 100

\* the observer of __main__: East Peoria, 40.6664 N
PeoriaLat == 406664

visibility_map ==
    (9 :> 35) @@ (8 :> 40) @@ (7 :> 45) @@ (6 :> 50) @@ (5 :> 55) @@
    (4 :> 60) @@ (3 :> 65) @@ (2 :> 70) @@ (1 :> 75) @@ (0 :> 80)

-----------------------------------------------------------------------------
(* Bounds of the model *)

MaxCycles == 3

\* seconds the scheduler may sleep before it starts the next job
Delays == {1, alert_cooldown}

\* what the data source may answer: a reading, an error, or nothing at all
KpReadings == {367, 600, 800}
Responses ==
    {[status |-> "ok", kp |-> v] : v \in KpReadings}
        \cup {[status |-> "error", kp |-> None], [status |-> "stall", kp |-> None]}

RenderOutcomes == {"ok", "raise"}
SmtpOutcomes == {"ok", "error", "stall"}

Latitudes == {PeoriaLat, Deg(65)}

\* inputs of the visibility evaluation taken on its own
VisKp == {-100, -1, 0, 50, 100, 200, 300, 367, 400, 490, 500, 600, 700, 800,
          899, 900, 950, 1200}
VisLatitudes ==
    {Deg(visibility_map[l]) : l \in 0..9}
        \cup {Deg(visibility_map[l]) - 100 : l \in 0..9}
        \cup {PeoriaLat, Deg(90)}
        \cup {Deg(95), 0 - Deg(95)}   \* __init__ takes any user_location

-----------------------------------------------------------------------------
(* Pure functions *)

\* get_kp_index: the reading, or None on a bad status, a malformed body, an
\* exception or the 10 s timeout of requests.get
get_kp_index(resp) ==
    IF resp.status = "ok" THEN resp.kp ELSE None

\* the descending scan of calculate_aurora_visibility: first level <= kp_index
RECURSIVE scan_levels(_, _)
scan_levels(kp_index, kp_level) ==
    IF kp_level < 0 THEN 80
    ELSE IF kp_index >= Kp(kp_level) THEN visibility_map[kp_level]
    ELSE scan_levels(kp_index, kp_level - 1)

\* the same evaluation with the observer compared strictly
calculate_aurora_visibility_strict(kp_index, lat) ==
    LET visible_latitude == scan_levels(kp_index, 9)
    IN  [is_visible |-> lat > Deg(visible_latitude),
         visible_latitude |-> visible_latitude]

calculate_aurora_visibility(kp_index, lat) ==
    LET visible_latitude == scan_levels(kp_index, 9)
    IN  [is_visible |-> lat >= Deg(visible_latitude),
         visible_latitude |-> visible_latitude]

\* a cooldown that ends the moment alert_cooldown seconds have passed
cooldown_over_at_limit(last, t) ==
    last = None \/ t - last >= alert_cooldown

\* a decision that forgets the cooldown
cooldown_over_always(last, t) == TRUE

\* the third conjunct of should_alert: no alert yet, or the cooldown is over
cooldown_over(last, t) ==
    last = None \/ t - last > alert_cooldown

\* the decision without the visibility conjunct
should_alert_on_threshold(kp_index, is_visible, last, t) ==
    /\ kp_index >= Kp(kp_threshold)
    /\ cooldown_over(last, t)

should_alert(kp_index, is_visible, last, t) ==
    /\ kp_index >= Kp(kp_threshold)
    /\ is_visible
    /\ cooldown_over(last, t)

\* create_aurora_map reads the data source again and draws what it reads
\* (0 when there is no reading); saving or opening the file may raise
create_aurora_map(resp, outcome) ==
    LET k  == get_kp_index(resp)
        kp_index == IF k = None THEN 0 ELSE k
    IN  [raised |-> outcome = "raise",
         kp |-> kp_index,
         visible_latitude |-> scan_levels(kp_index, 9)]

\* the SMTP exchange of the three send_* methods: smtplib.SMTP is given no
\* timeout, so a server that stops answering never returns
smtp_send(outcome) ==
    CASE outcome = "ok" -> "sent"
      [] outcome = "error" -> "failed"
      [] outcome = "stall" -> "hung"

NoCycle ==
    [kind |-> "none", at |-> None, fetch |-> "none", kp |-> None,
     is_visible |-> FALSE, visible_latitude |-> None, threshold_met |-> FALSE,
     decision |-> "none", prev_alert |-> None, prev_outcome |-> "none",
     render |-> "none", map_kp |-> None, map_latitude |-> None, mail |-> "none"]

-----------------------------------------------------------------------------
(* The monitoring system *)

Init ==
    /\ user_lat \in Latitudes
    /\ email_config \in BOOLEAN
    /\ last_alert_time = None
    /\ now = 0
    /\ pc = "start"
    /\ cycles = 0
    /\ alert_outcome = "none"
    /\ cycle = NoCycle

\* send_startup_email, as run_monitoring and run_once call it
send_startup_email(so) ==
    IF ~email_config THEN "none" ELSE smtp_send(so)

\* run_monitoring up to its immediate first check
run_monitoring ==
    /\ pc = "start"
    /\ \E so \in SmtpOutcomes :
        LET mail == send_startup_email(so)
        IN  /\ cycle' = [NoCycle EXCEPT !.kind = "startup", !.at = now, !.mail = mail]
            /\ pc' = IF mail = "hung" THEN "hung" ELSE "check"
    /\ UNCHANGED <<user_lat, email_config, last_alert_time, now, cycles, alert_outcome>>

\* the loop of run_monitoring: sleep, then schedule.run_pending starts a job
ScheduleCheck ==
    /\ pc = "idle"
    /\ cycles < MaxCycles
    /\ \E d \in Delays : now' = now + d
    /\ pc' = "check"
    /\ cycles' = cycles + 1
    /\ UNCHANGED <<user_lat, email_config, last_alert_time, alert_outcome, cycle>>

ScheduleDaily ==
    /\ pc = "idle"
    /\ cycles < MaxCycles
    /\ \E d \in Delays : now' = now + d
    /\ pc' = "daily"
    /\ cycles' = cycles + 1
    /\ UNCHANGED <<user_lat, email_config, last_alert_time, alert_outcome, cycle>>

\* a check that goes on with whatever the fetch returned
has_reading_always(kp_index) == TRUE

\* whether check_aurora_conditions goes on after its fetch
has_reading(kp_index) == kp_index # None

\* the alert time taken on every check that has a reading
record_alert_every_check(alert, last, t, map_raised, mail) == t

\* the alert time taken only once the map and the message went through
record_alert_when_delivered(alert, last, t, map_raised, mail) ==
    IF alert /\ ~map_raised /\ mail # "failed" THEN t ELSE last

\* last_alert_time after the branch on should_alert (set before the map is made)
record_alert(alert, last, t, map_raised, mail) ==
    IF alert THEN t ELSE last

\* whether check_aurora_conditions reaches send_email_alert and passes its guard
sends_alert(alert, map_raised, configured) ==
    alert /\ ~map_raised /\ configured

\* One run of the handler.  The clock is read at whole seconds, so the two
\* time.time() calls of the handler return the same value.  An exception of
\* create_aurora_map is not caught here and leaves the handler (pc "raised");
\* an SMTP exchange that never returns leaves the worker blocked (pc "hung").
check_aurora_conditions ==
    /\ pc = "check"
    /\ \E r1 \in Responses, r2 \in Responses, ro \in RenderOutcomes, so \in SmtpOutcomes :
        LET kp_index == get_kp_index(r1)
        IN  IF ~has_reading(kp_index)
            THEN /\ cycle' = [NoCycle EXCEPT !.kind = "check", !.at = now,
                                             !.fetch = r1.status,
                                             !.decision = "NoData",
                                             !.prev_alert = last_alert_time,
                                             !.prev_outcome = alert_outcome]
                 /\ pc' = "idle"
                 /\ UNCHANGED <<last_alert_time, alert_outcome>>
            ELSE LET vis   == calculate_aurora_visibility(kp_index, user_lat)
                     met   == kp_index >= Kp(kp_threshold) /\ vis.is_visible
                     alert == should_alert(kp_index, vis.is_visible, last_alert_time, now)
                     map   == create_aurora_map(r2, ro)
                     mail  == IF sends_alert(alert, map.raised, email_config)
                              THEN smtp_send(so) ELSE "none"
                 IN  /\ last_alert_time' = record_alert(alert, last_alert_time, now, map.raised, mail)
                     /\ alert_outcome' = IF ~alert THEN alert_outcome
                                         ELSE IF map.raised THEN "raised"
                                         ELSE mail
                     /\ cycle' = [kind |-> "check", at |-> now,
                                  fetch |-> r1.status, kp |-> kp_index,
                                  is_visible |-> vis.is_visible,
                                  visible_latitude |-> vis.visible_latitude,
                                  threshold_met |-> met,
                                  decision |-> IF alert THEN "Alert"
                                               ELSE IF met THEN "Suppressed"
                                               ELSE "ReportOnly",
                                  prev_alert |-> last_alert_time,
                                  prev_outcome |-> alert_outcome,
                                  render |-> IF map.raised THEN "raised" ELSE "ok",
                                  map_kp |-> map.kp,
                                  map_latitude |-> map.visible_latitude,
                                  mail |-> mail]
                     /\ pc' = IF map.raised THEN "raised"
                              ELSE IF mail = "hung" THEN "hung"
                              ELSE "idle"
    /\ UNCHANGED <<user_lat, email_config, now, cycles>>

\* a daily report that does not look at the configuration
daily_enabled_always(configured) == TRUE

\* whether send_daily_report_email goes past its first guard
daily_enabled(configured) == configured

\* One run of the daily report: its own fetch (0 when there is no reading),
\* then the map and the SMTP exchange inside one try block.
send_daily_report_email ==
    /\ pc = "daily"
    /\ \E r1 \in Responses, r2 \in Responses, ro \in RenderOutcomes, so \in SmtpOutcomes :
        IF ~daily_enabled(email_config)
        THEN /\ cycle' = [NoCycle EXCEPT !.kind = "daily", !.at = now,
                                         !.prev_alert = last_alert_time,
                                         !.prev_outcome = alert_outcome]
             /\ pc' = "idle"
        ELSE LET k        == get_kp_index(r1)
                 kp_index == IF k = None THEN 0 ELSE k
                 vis      == calculate_aurora_visibility(kp_index, user_lat)
                 map      == create_aurora_map(r2, ro)
                 mail     == IF map.raised THEN "none" ELSE smtp_send(so)
             IN  /\ cycle' = [kind |-> "daily", at |-> now,
                              fetch |-> r1.status, kp |-> kp_index,
                              is_visible |-> vis.is_visible,
                              visible_latitude |-> vis.visible_latitude,
                              threshold_met |-> FALSE,
                              decision |-> "none",
                              prev_alert |-> last_alert_time,
                              prev_outcome |-> alert_outcome,
                              render |-> IF map.raised THEN "raised" ELSE "ok",
                              map_kp |-> map.kp,
                              map_latitude |-> map.visible_latitude,
                              mail |-> mail]
                 /\ pc' = IF mail = "hung" THEN "hung" ELSE "idle"
    /\ UNCHANGED <<user_lat, email_config, last_alert_time, now, cycles, alert_outcome>>

Next ==
    \/ run_monitoring
    \/ ScheduleCheck
    \/ ScheduleDaily
    \/ check_aurora_conditions
    \/ send_daily_report_email

Spec == Init /\ [][Next]_vars

\* the single worker keeps running whatever it can run
FairSpec == Spec /\ WF_vars(Next)

-----------------------------------------------------------------------------
(* The visibility evaluation on its own: any index, any observer *)

InitVis ==
    /\ user_lat \in VisLatitudes
    /\ email_config = FALSE
    /\ last_alert_time = None
    /\ now = 0
    /\ pc = "evaluate"
    /\ cycles = 0
    /\ alert_outcome = "none"
    /\ \E k \in VisKp : cycle = [NoCycle EXCEPT !.kp = k]

Evaluate ==
    /\ pc = "evaluate"
    /\ LET vis == calculate_aurora_visibility(cycle.kp, user_lat)
       IN  cycle' = [cycle EXCEPT !.kind = "evaluate",
                                  !.is_visible = vis.is_visible,
                                  !.visible_latitude = vis.visible_latitude]
    /\ pc' = "evaluated"
    /\ UNCHANGED <<user_lat, email_config, last_alert_time, now, cycles, alert_outcome>>

NextVis == Evaluate

SpecVis == InitVis /\ [][NextVis]_vars

-----------------------------------------------------------------------------
(* C3: the visibility evaluation is the step function of the table.  For   *)
(* every index and observer latitude the boundary latitude is the table    *)
(* entry of the largest level 0..9 that is <= the index (80 when the index *)
(* is negative, level 9 above 9), and the observer is visible exactly when *)
(* the observer latitude is >= that boundary.                              *)

\* the table as the claim lists it, level 0 first
BoundaryTable == <<80, 75, 70, 65, 60, 55, 50, 45, 40, 35>>

LevelsAtMost(k) == {l \in 0..9 : Kp(l) <= k}

ExpectedBoundary(k) ==
    IF LevelsAtMost(k) = {} THEN 80
    ELSE LET top == CHOOSE l \in LevelsAtMost(k) : \A m \in LevelsAtMost(k) : m <= l
         IN  BoundaryTable[top + 1]

C3_StepFunction ==
    pc = "evaluated" =>
        /\ cycle.visible_latitude = ExpectedBoundary(cycle.kp)
        /\ cycle.is_visible = (user_lat >= Deg(ExpectedBoundary(cycle.kp)))

\* index 4.9 evaluated one hundredth of a degree below level 4's boundary
C3_Witness ==
    /\ pc = "evaluated"
    /\ cycle.kp = 490
    /\ cycle.visible_latitude = 60
    /\ user_lat = Deg(60) - 100
    /\ ~cycle.is_visible

-----------------------------------------------------------------------------
(* What a finished handler run looked like *)

CheckDone == cycle.kind = "check"
DailyDone == cycle.kind = "daily"
AtPeoria == user_lat = PeoriaLat

\* seconds between the previous alert and this cycle (only when there was one)
SinceAlert == cycle.at - cycle.prev_alert

-----------------------------------------------------------------------------
(* C1, as stated: in a check whose threshold is met the alert is           *)
(* suppressed if and only if an alert was recorded and fewer than          *)
(* alert_cooldown seconds have passed since; so it is not suppressed when  *)
(* exactly alert_cooldown seconds have passed.                             *)
C1_SuppressedIffBeforeCooldown ==
    (CheckDone /\ cycle.threshold_met) =>
        (cycle.decision = "Suppressed"
            <=> (cycle.prev_alert # None /\ SinceAlert < alert_cooldown))

(* C1, amended: in a check whose threshold is met the alert is suppressed  *)
(* if and only if an alert was recorded and at most alert_cooldown seconds *)
(* have passed since: never while no alert was recorded, at one second     *)
(* after the alert, still at exactly alert_cooldown seconds, and no longer *)
(* once more than alert_cooldown seconds have passed.                      *)
C1_SuppressedIffWithinCooldown ==
    (CheckDone /\ cycle.threshold_met) =>
        /\ cycle.decision = "Suppressed"
            <=> (cycle.prev_alert # None /\ SinceAlert <= alert_cooldown)
        /\ cycle.decision \in {"Suppressed", "Alert"}

\* a check with the threshold met exactly alert_cooldown seconds after an alert
C1_Witness ==
    /\ CheckDone
    /\ cycle.threshold_met
    /\ cycle.prev_alert # None
    /\ SinceAlert = alert_cooldown
    /\ cycle.decision = "Suppressed"

-----------------------------------------------------------------------------
(* C2, as stated: at 40.6664 N with threshold 4, a check reading 3.67 is   *)
(* ReportOnly; a check reading 6.0 is Alert when no alert was recorded,    *)
(* Suppressed inside the cooldown and Alert again after it.                *)
C2_SixAlertsAtPeoria ==
    (AtPeoria /\ CheckDone) =>
        /\ cycle.kp = 367 => cycle.decision = "ReportOnly"
        /\ (cycle.kp = 600 /\ cycle.prev_alert = None) => cycle.decision = "Alert"
        /\ (cycle.kp = 600 /\ cycle.prev_alert # None /\ SinceAlert < alert_cooldown)
                => cycle.decision = "Suppressed"
        /\ (cycle.kp = 600 /\ cycle.prev_alert # None /\ SinceAlert > alert_cooldown)
                => cycle.decision = "Alert"

(* C2, amended: at 40.6664 N with threshold 4, a check reading 3.67 is     *)
(* ReportOnly and so is every check reading 6.0 (its boundary is 50 N); a  *)
(* check reading 8.0 (boundary 40 N) is Alert when no alert was recorded,  *)
(* Suppressed on a repeat up to alert_cooldown seconds after the alert and *)
(* Alert again once more than alert_cooldown seconds have passed.          *)
C2_EightAlertsAtPeoria ==
    (AtPeoria /\ CheckDone) =>
        /\ cycle.kp = 367 => cycle.decision = "ReportOnly"
        /\ cycle.kp = 600 =>
                (cycle.decision = "ReportOnly" /\ cycle.visible_latitude = 50)
        /\ (cycle.kp = 800 /\ cycle.prev_alert = None) => cycle.decision = "Alert"
        /\ (cycle.kp = 800 /\ cycle.prev_alert # None /\ SinceAlert <= alert_cooldown)
                => cycle.decision = "Suppressed"
        /\ (cycle.kp = 800 /\ cycle.prev_alert # None /\ SinceAlert > alert_cooldown)
                => cycle.decision = "Alert"

\* the second alert at Peoria, on a reading of 8.0 after the cooldown
C2_Witness ==
    /\ AtPeoria
    /\ CheckDone
    /\ cycle.kp = 800
    /\ cycle.prev_alert # None
    /\ SinceAlert > alert_cooldown
    /\ cycle.decision = "Alert"

-----------------------------------------------------------------------------
(* C4: a check whose fetch finds the data source unavailable ends as       *)
(* NoData: last_alert_time keeps its value, no map is rendered and no      *)
(* message is sent in that cycle.                                          *)
C4_NoDataTouchesNothing ==
    (CheckDone /\ cycle.fetch # "ok") =>
        /\ cycle.decision = "NoData"
        /\ last_alert_time = cycle.prev_alert
        /\ alert_outcome = cycle.prev_outcome
        /\ cycle.render = "none"
        /\ cycle.mail = "none"

\* a NoData check while an alert is on record and the notifier is enabled
C4_Witness ==
    /\ CheckDone
    /\ cycle.fetch = "error"
    /\ cycle.decision = "NoData"
    /\ email_config
    /\ last_alert_time # None

-----------------------------------------------------------------------------
(* C5: last_alert_time changes only in a step that is a check deciding     *)
(* Alert, which sets it once, to that cycle's time; every other step (a    *)
(* Suppressed, ReportOnly or NoData check, a daily report, the startup     *)
(* notice, the scheduler) leaves it as it was.                             *)
AlertStep == pc = "check" /\ cycle'.decision = "Alert"

C5_OnlyAlertRecords ==
    [][IF AlertStep
       THEN last_alert_time' = now /\ last_alert_time' # last_alert_time
       ELSE last_alert_time' = last_alert_time]_vars

\* an alert that replaced an earlier alert time
C5_Witness ==
    /\ CheckDone
    /\ cycle.decision = "Alert"
    /\ cycle.prev_alert # None
    /\ last_alert_time = cycle.at
    /\ last_alert_time # cycle.prev_alert

-----------------------------------------------------------------------------
(* C6, as stated: every daily report renders the map and sends the summary *)
(* message, also when the notifier is not configured, and leaves           *)
(* last_alert_time alone.  (Read in the claim's favour: the rendering and  *)
(* the sending are at least started; a failure of either is not counted.)  *)
C6_DailyAlwaysRendersAndSends ==
    DailyDone =>
        /\ cycle.render # "none"
        /\ cycle.render = "ok" => cycle.mail # "none"
        /\ last_alert_time = cycle.prev_alert

(* C6, amended: a daily report with the notifier configured renders the    *)
(* map and, unless the rendering raised, sends the summary message,        *)
(* whatever the index, the visibility and the cooldown state are and also  *)
(* when the data source is unavailable (index 0 is reported); with no      *)
(* notifier configured it renders nothing and sends nothing; in every case *)
(* last_alert_time is left alone.                                          *)
C6_DailyRendersAndSendsWhenConfigured ==
    DailyDone =>
        /\ last_alert_time = cycle.prev_alert
        /\ alert_outcome = cycle.prev_outcome
        /\ email_config =>
            /\ cycle.render \in {"ok", "raised"}
            /\ cycle.render = "ok" => cycle.mail \in {"sent", "failed", "hung"}
            /\ cycle.render = "raised" => cycle.mail = "none"
            /\ cycle.fetch # "ok" => cycle.kp = 0
        /\ ~email_config => (cycle.render = "none" /\ cycle.mail = "none")

\* a report sent inside a cooldown although the data source was unavailable
C6_Witness ==
    /\ DailyDone
    /\ email_config
    /\ cycle.fetch = "error"
    /\ cycle.render = "ok"
    /\ cycle.mail = "sent"
    /\ last_alert_time # None
    /\ cycle.at - last_alert_time < alert_cooldown

-----------------------------------------------------------------------------
(* C7: when a check decides Alert and the rendering raises or the delivery *)
(* fails, last_alert_time is nevertheless that cycle's time; and a later   *)
(* check inside the cooldown of such a failed alert whose threshold is met *)
(* is Suppressed and sends nothing.                                        *)
C7_FailedAlertStillCoolsDown ==
    /\ (CheckDone /\ cycle.decision = "Alert"
            /\ (cycle.render = "raised" \/ cycle.mail = "failed"))
        => last_alert_time = cycle.at
    /\ (CheckDone /\ cycle.threshold_met /\ cycle.prev_outcome \in {"failed", "raised"}
            /\ cycle.prev_alert # None /\ SinceAlert < alert_cooldown)
        => (cycle.decision = "Suppressed" /\ cycle.mail = "none"
                /\ last_alert_time = cycle.prev_alert)

\* a suppressed check one second after an alert whose delivery failed
C7_Witness ==
    /\ CheckDone
    /\ cycle.threshold_met
    /\ cycle.prev_outcome = "failed"
    /\ SinceAlert = 1
    /\ cycle.decision = "Suppressed"
    /\ cycle.mail = "none"

-----------------------------------------------------------------------------
(* C8, as stated: after a cycle in which the fetch, the rendering or the   *)
(* delivery failed, nothing was raised to the scheduler, which goes on     *)
(* running checks and reports.                                             *)
CycleFailed ==
    /\ cycle.kind \in {"check", "daily"}
    /\ \/ cycle.fetch \in {"error", "stall"}
       \/ cycle.render = "raised"
       \/ cycle.mail = "failed"

C8_FailuresStayInTheCycle ==
    CycleFailed => pc \in {"idle", "check", "daily"}

-----------------------------------------------------------------------------
(* C9, as stated: every check that obtained a reading renders the map,     *)
(* and with the notifier enabled an alert message is sent if and only if   *)
(* the decision is Alert.  (Read in the claim's favour: the rendering and  *)
(* the sending are at least started.)                                      *)
C9_MessageIffAlert ==
    (CheckDone /\ cycle.fetch = "ok") =>
        /\ cycle.render # "none"
        /\ email_config => (cycle.mail # "none" <=> cycle.decision = "Alert")
        /\ cycle.decision # "Alert" => cycle.mail = "none"

-----------------------------------------------------------------------------
(* C10, as stated: every started check or daily report eventually is over  *)
(* (the engine is idle again, or the cycle ended by raising), because the  *)
(* fetch and the send are bounded by a timeout.                            *)
C10_EveryCycleEnds ==
    (pc \in {"check", "daily"}) ~> (pc \in {"idle", "raised"})

-----------------------------------------------------------------------------
(* C11, as stated: an observer latitude outside [-90, 90] is rejected at   *)
(* construction or at the evaluation, so no visibility verdict is ever     *)
(* produced for such a latitude.                                           *)
ValidLatitude(lat) == 0 - Deg(90) <= lat /\ lat <= Deg(90)

C11_NoVerdictOutOfRange ==
    pc = "evaluated" => ValidLatitude(user_lat)

-----------------------------------------------------------------------------
(* C12, as stated: the map rendered in a check cycle shows the index and   *)
(* the boundary latitude the cycle's decision was computed from, whatever  *)
(* the data source answers to a second read in the same cycle.             *)
C12_MapShowsTheDecisionsReading ==
    (CheckDone /\ cycle.render = "ok") =>
        /\ cycle.map_kp = cycle.kp
        /\ cycle.map_latitude = cycle.visible_latitude

-----------------------------------------------------------------------------
(* C13: with a clock that never runs backwards, a check that decides Alert *)
(* comes at least alert_cooldown seconds after the alert before it, and    *)
(* last_alert_time, once set, never decreases; so any two alerts, and the  *)
(* messages they send, are at least alert_cooldown seconds apart.          *)
C13_AlertsAreCooldownApart ==
    [][/\ last_alert_time # None => last_alert_time' >= last_alert_time
       /\ (AlertStep /\ last_alert_time # None) =>
            /\ now - last_alert_time >= alert_cooldown
            /\ last_alert_time' - last_alert_time >= alert_cooldown
       /\ (pc = "check" /\ cycle'.mail # "none") => AlertStep]_vars

\* two alert messages delivered, the second after the cooldown of the first
C13_Witness ==
    /\ CheckDone
    /\ cycle.decision = "Alert"
    /\ cycle.prev_outcome = "sent"
    /\ cycle.mail = "sent"
    /\ cycle.prev_alert # None
    /\ SinceAlert >= alert_cooldown
    /\ last_alert_time > cycle.prev_alert

====
